---- MODULE Spec2Model ----
(***************************************************************************)
(* Model of spacy2iob.py: conversion of a corpus into IOB lines.           *)
(*                                                                         *)
(* Strings are sequences of one-character strings, so that formatting,     *)
(* the regular-expression search of find_entities and join/strip are       *)
(* computed on characters.  Indices of tokens are Python's (0-based).      *)
(***************************************************************************)
EXTENDS Integers, Sequences, FiniteSets, TLC

VARIABLES
    cfg,         \* separator, split_sentences, mapping, source (lines 315-317)
    nfiles,      \* len(args.file)
    ifile,       \* position of the main loop in args.file (1-based)
    pc,          \* "loop", "file", "entities", "exit1", "crashed", "done"
    out,         \* the .iob file of every input file: exists, data
    iob_tokens,  \* lines collected for the current file
    doc,         \* the current segment: tokens of nlp(...)
    tokens,      \* find_entities' working list
    ents,        \* mentions located so far in the current segment
    target,      \* the list handed to the last call of sequence_in
    cur,         \* the mention handed to the last call of sequence_in
    ret,         \* the list last returned by find_entities / span_to_iob
    ntok         \* tokens read so far (bounds the input)

vars == <<cfg, nfiles, ifile, pc, out, iob_tokens, doc, tokens, ents,
          target, cur, ret, ntok>>

\* ------------------------------------------------------------- bounds
MaxFiles == 2
MaxTokens == 3
MaxMentions == 2
MaxMentionLen == 2

\* ------------------------------------------------------------- characters
TAB == "\t"
NL == "\n"
Whitespace == {" ", TAB, NL}

\* token texts the tokenizer may produce (no whitespace inside a token)
Words == {<<"a">>, <<"b">>}

\* configured separators: the default tab, and a pipe
SepSet == {<<TAB>>, <<"|">>}

\* raw entity types found in the input, and the mapping tables configured
RawTypes == {<<"p">>, <<"o">>}
TableChain == (<<"p">> :> <<"o">>) @@ (<<"o">> :> <<"L">>)
TablePartial == (<<"p">> :> <<"P">>)
Tables == {TableChain, TablePartial}

\* ------------------------------------------------------------- helpers
\* dict.get(key, default)
mapping_get(m, x) == IF x \in DOMAIN m THEN m[x] ELSE x

\* Python's target[a:b] for 0 <= a
Slice(s, a, b) ==
    LET hi == IF b > Len(s) THEN Len(s) ELSE b
    IN  IF a >= hi THEN <<>> ELSE SubSeq(s, a + 1, hi)

Min(S) == CHOOSE x \in S : \A y \in S : x <= y

StartsWith(s, p) == Len(p) <= Len(s) /\ SubSeq(s, 1, Len(p)) = p
EndsWith(s, p) ==
    Len(p) <= Len(s) /\ SubSeq(s, Len(s) - Len(p) + 1, Len(s)) = p

\* ------------------------------------------------------------- re.search
\* The pattern of find_entities is the separator followed by [BI] and "-".
\* An atom is a literal character or the class "[BI]"; "|" separates
\* alternatives, as in Python's re.
ClassBI == "[BI]"
TagPattern(sep) == sep \o <<ClassBI, "-">>

RECURSIVE SplitAlternatives(_)
SplitAlternatives(p) ==
    IF \A k \in 1..Len(p) : p[k] # "|"
    THEN <<p>>
    ELSE LET k == Min({j \in 1..Len(p) : p[j] = "|"})
         IN  <<SubSeq(p, 1, k - 1)>>
                 \o SplitAlternatives(SubSeq(p, k + 1, Len(p)))

AtomMatches(atom, ch) ==
    IF atom = ClassBI THEN ch \in {"B", "I"} ELSE atom = ch

MatchesAt(alt, s, pos) ==
    /\ pos + Len(alt) - 1 <= Len(s)
    /\ \A k \in 1..Len(alt) : AtomMatches(alt[k], s[pos + k - 1])

re_search(pattern, s) ==
    LET alts == SplitAlternatives(pattern)
    IN  \E a \in 1..Len(alts) : \E pos \in 1..(Len(s) + 1) :
            MatchesAt(alts[a], s, pos)

\* ------------------------------------------------------------- find_entities
NotFound == [found |-> FALSE, start |-> 0, end |-> 0]

\* faulty variants of sequence_in: the search runs on the texts of the doc
\* instead of the working list; it starts at 0 instead of idx; it returns
\* the last window instead of the first
sequence_in_texts(seq, tgt, idx) ==
    LET h == [i \in 1..Len(doc) |-> doc[i].text]
        hits == {i \in idx..(Len(h) - Len(seq)) :
                    seq = Slice(h, i, i + Len(seq))}
    IN  IF hits = {} THEN NotFound
        ELSE [found |-> TRUE, start |-> Min(hits),
              end |-> Min(hits) + Len(seq)]

sequence_in_from0(seq, tgt, idx) ==
    LET hits == {i \in 0..(Len(tgt) - Len(seq)) :
                    seq = Slice(tgt, i, i + Len(seq))}
    IN  IF hits = {} THEN NotFound
        ELSE [found |-> TRUE, start |-> Min(hits),
              end |-> Min(hits) + Len(seq)]

sequence_in_last(seq, tgt, idx) ==
    LET hits == {i \in idx..(Len(tgt) - Len(seq)) :
                    seq = Slice(tgt, i, i + Len(seq))}
        last == CHOOSE x \in hits : \A y \in hits : y <= x
    IN  IF hits = {} THEN NotFound
        ELSE [found |-> TRUE, start |-> last, end |-> last + Len(seq)]

\* sequence_in, lines 201-206: the first window of target at or after idx
\* that equals seq; NotFound stands for the raise of line 206
sequence_in(seq, tgt, idx) ==
    LET n == Len(Slice(tgt, idx, Len(tgt))) - Len(seq) + 1
        hits == {i \in 0..(n - 1) :
                    seq = Slice(tgt, i + idx, i + idx + Len(seq))}
    IN  IF hits = {} THEN NotFound
        ELSE [found |-> TRUE, start |-> Min(hits) + idx,
              end |-> Min(hits) + idx + Len(seq)]

\* lines 214-219: the tokens of coords get text + sep + B-/I- + enttype
TagEntity(toks, sep, enttype, coords) ==
    [i \in 1..Len(toks) |->
        IF coords.start <= i - 1 /\ i - 1 < coords.end
        THEN toks[i] \o sep
                 \o <<IF i - 1 = coords.start THEN "B" ELSE "I", "-">>
                 \o enttype
        ELSE toks[i]]

\* faulty variant of TagOutside: with split_sentences every line gets the
\* line break
TagOutside_every(toks, d, sep, segment) ==
    [i \in 1..Len(toks) |->
        LET tagged == IF ~re_search(TagPattern(sep), toks[i])
                      THEN toks[i] \o sep \o <<"O">>
                      ELSE toks[i]
        IN  IF segment THEN tagged \o <<NL>> ELSE tagged]

\* lines 221-225: untagged tokens get "O"; sentence ends get the line break
TagOutside(toks, d, sep, segment) ==
    [i \in 1..Len(toks) |->
        LET tagged == IF ~re_search(TagPattern(sep), toks[i])
                      THEN toks[i] \o sep \o <<"O">>
                      ELSE toks[i]
        IN  IF d[i].is_sent_end /\ segment THEN tagged \o <<NL>> ELSE tagged]

\* ------------------------------------------------------------- Spacy
\* faulty variant of token_to_iob: the raw type is written unmapped
token_to_iob_raw(token, sep, mapping) ==
    LET iob == token.ent_iob_
        iob_tag == IF iob = "O" THEN <<iob>>
                   ELSE <<iob, "-">> \o token.ent_type_
    IN  token.text \o sep \o iob_tag

\* token_to_iob, lines 98-103
token_to_iob(token, sep, mapping) ==
    LET iob == token.ent_iob_
        enttype == mapping_get(mapping, token.ent_type_)
        iob_tag == IF iob = "O" THEN <<iob>> ELSE <<iob, "-">> \o enttype
    IN  token.text \o sep \o iob_tag

\* doc.sents: the sentences of a doc, cut after every token that ends one
RECURSIVE Sents(_)
Sents(d) ==
    IF d = <<>> THEN <<>>
    ELSE LET ends == {k \in 1..Len(d) : d[k].is_sent_end}
             k == IF ends = {} THEN Len(d) ELSE Min(ends)
         IN  <<SubSeq(d, 1, k)>> \o Sents(SubSeq(d, k + 1, Len(d)))

\* faulty variant of AppendSentence: the line break is appended as an
\* element of its own
AppendSentence_extra(acc, sentence, sep, mapping, segment) ==
    LET added == acc \o [k \in 1..Len(sentence) |->
                            token_to_iob(sentence[k], sep, mapping)]
    IN  IF segment THEN Append(added, <<NL>>) ELSE added

\* lines 108-111: one sentence appended to the list, then the line break
\* on the last element of the list
AppendSentence(acc, sentence, sep, mapping, segment) ==
    LET added == acc \o [k \in 1..Len(sentence) |->
                            token_to_iob(sentence[k], sep, mapping)]
    IN  IF segment
        THEN [added EXCEPT ![Len(added)] = added[Len(added)] \o <<NL>>]
        ELSE added

RECURSIVE SpanLoop(_, _, _, _, _)
SpanLoop(acc, sents, sep, mapping, segment) ==
    IF sents = <<>> THEN acc
    ELSE SpanLoop(AppendSentence(acc, Head(sents), sep, mapping, segment),
                  Tail(sents), sep, mapping, segment)

\* span_to_iob, lines 105-112
span_to_iob(d, sep, mapping, segment) ==
    SpanLoop(<<>>, Sents(d), sep, mapping, segment)

\* ------------------------------------------------------------- output
\* '\n'.join(lines)
RECURSIVE Join(_)
Join(lines) ==
    IF lines = <<>> THEN <<>>
    ELSE IF Len(lines) = 1 THEN lines[1]
    ELSE lines[1] \o <<NL>> \o Join(Tail(lines))

\* str.strip()
RECURSIVE Strip(_)
Strip(s) ==
    IF s = <<>> THEN s
    ELSE IF s[1] \in Whitespace THEN Strip(Tail(s))
    ELSE IF s[Len(s)] \in Whitespace THEN Strip(SubSeq(s, 1, Len(s) - 1))
    ELSE s

\* line 343: print('\n'.join(iob_tokens).strip(), file=fout)
Printed(lines) == Strip(Join(lines)) \o <<NL>>

\* ------------------------------------------------------------- inputs
\* a segment of n tokens as nlp(...) returns it; the last token of a doc
\* ends a sentence.  In golden mode the tagger's labels are not read.
GoldenTokens ==
    [text : Words, is_sent_end : BOOLEAN, ent_iob_ : {"O"}, ent_type_ : {<<>>}]

AutoTokens ==
    [text : Words, is_sent_end : BOOLEAN, ent_iob_ : {"O"}, ent_type_ : {<<>>}]
    \cup [text : Words, is_sent_end : BOOLEAN, ent_iob_ : {"B", "I"},
          ent_type_ : RawTypes]

\* an I- token continues the entity of the token before it
WellTagged(d) ==
    \A k \in 1..Len(d) :
        d[k].ent_iob_ = "I" =>
            /\ k > 1
            /\ d[k - 1].ent_iob_ \in {"B", "I"}
            /\ d[k - 1].ent_type_ = d[k].ent_type_

Docs(n, toks) ==
    {d \in [1..n -> toks] : d[n].is_sent_end /\ WellTagged(d)}

\* the tokenization of an entity's text: never empty (line 238 reads its
\* first token)
MentionSeqs == UNION {[1..n -> Words] : n \in 1..MaxMentionLen}

NoEnt == [entity |-> <<>>, rawtype |-> <<>>, enttype |-> <<>>, ent_idx |-> 0]

\* the offsets of get_entity_indexes increase with the mentions (lines
\* 246-250 append them in token order)
NextOffsets ==
    IF ents = <<>> THEN 0..(Len(doc) - 1)
    ELSE (ents[Len(ents)].ent_idx + 1)..(Len(doc) - 1)

Texts(d) == [i \in 1..Len(d) |-> d[i].text]

\* ------------------------------------------------------------- the program
Init ==
    /\ cfg \in [sep : SepSet, segment : BOOLEAN, mapping : Tables,
                source : {"golden", "spacy"}]
    /\ nfiles \in 1..MaxFiles
    /\ ifile = 1
    /\ pc = "loop"
    /\ out = [f \in 1..MaxFiles |-> [exists |-> FALSE, data |-> <<>>]]
    /\ iob_tokens = <<>>
    /\ doc = <<>>
    /\ tokens = <<>>
    /\ ents = <<>>
    /\ target = <<>>
    /\ cur = NoEnt
    /\ ret = <<>>
    /\ ntok = 0

\* lines 326-334: the output file is opened (and truncated)
OpenOutput ==
    /\ pc = "loop"
    /\ out' = [out EXCEPT ![ifile] = [exists |-> TRUE, data |-> <<>>]]
    /\ iob_tokens' = <<>>
    /\ pc' = "file"
    /\ UNCHANGED <<cfg, nfiles, ifile, doc, tokens, ents, target, cur, ret,
                   ntok>>

\* faulty variant of OpenFails: the file is skipped and the loop goes on
OpenFails_continue ==
    /\ pc = "loop"
    /\ ifile' = ifile + 1
    /\ pc' = IF ifile = nfiles THEN "done" ELSE "loop"
    /\ UNCHANGED <<cfg, nfiles, out, iob_tokens, doc, tokens, ents, target,
                   cur, ret, ntok>>

\* lines 330-332: open fails, sys.exit(1)
OpenFails ==
    /\ pc = "loop"
    /\ pc' = "exit1"
    /\ UNCHANGED <<cfg, nfiles, ifile, out, iob_tokens, doc, tokens, ents,
                   target, cur, ret, ntok>>

\* lines 259-264, 287-289, 208: a turn is read in golden mode and
\* find_entities starts on its doc
ReadTurn ==
    /\ pc = "file"
    /\ cfg.source = "golden"
    /\ \E n \in 1..(MaxTokens - ntok) : \E d \in Docs(n, GoldenTokens) :
        /\ doc' = d
        /\ tokens' = Texts(d)
        /\ ntok' = ntok + n
    /\ ents' = <<>>
    /\ target' = <<>>
    /\ cur' = NoEnt
    /\ ret' = <<>>
    /\ pc' = "entities"
    /\ UNCHANGED <<cfg, nfiles, ifile, out, iob_tokens>>

\* faulty variant of Entity: the type is mapped a second time
Entity_twice(entity, rawtype, idx) ==
    [entity |-> entity, rawtype |-> rawtype,
     enttype |-> mapping_get(cfg.mapping, mapping_get(cfg.mapping, rawtype)),
     ent_idx |-> idx]

\* the tuple of lines 268-276 for one entity of the turn
Entity(entity, rawtype, idx) ==
    [entity |-> entity, rawtype |-> rawtype,
     enttype |-> mapping_get(cfg.mapping, rawtype), ent_idx |-> idx]

\* lines 210-219: one mention is located and its tokens are tagged
LocateEntity ==
    /\ pc = "entities"
    /\ Len(ents) < MaxMentions
    /\ \E entity \in MentionSeqs, rawtype \in RawTypes, idx \in NextOffsets :
        LET ent == Entity(entity, rawtype, idx)
            coords == sequence_in(ent.entity, tokens, ent.ent_idx)
        IN  /\ coords.found
            /\ tokens' = TagEntity(tokens, cfg.sep, ent.enttype, coords)
            /\ ents' = Append(ents, [entity |-> ent.entity,
                                     rawtype |-> ent.rawtype,
                                     enttype |-> ent.enttype,
                                     ent_idx |-> ent.ent_idx,
                                     start |-> coords.start,
                                     end |-> coords.end])
            /\ cur' = ent
    /\ target' = tokens
    /\ UNCHANGED <<cfg, nfiles, ifile, pc, out, iob_tokens, doc, ret, ntok>>

\* faulty variant of AlignmentError: the exception is caught and the
\* segment is skipped
AlignmentError_skip ==
    /\ pc = "entities"
    /\ Len(ents) < MaxMentions
    /\ \E entity \in MentionSeqs, rawtype \in RawTypes, idx \in NextOffsets :
        /\ ~sequence_in_from0(entity, Slice(tokens, idx, Len(tokens)), 0).found
        /\ cur' = [entity |-> entity, rawtype |-> rawtype,
                   enttype |-> mapping_get(cfg.mapping, rawtype),
                   ent_idx |-> idx]
    /\ target' = tokens
    /\ pc' = "file"
    /\ UNCHANGED <<cfg, nfiles, ifile, out, iob_tokens, doc, tokens, ents,
                   ret, ntok>>

\* line 206: the mention is not found; the exception is caught nowhere and
\* ends the process
AlignmentError ==
    /\ pc = "entities"
    /\ Len(ents) < MaxMentions
    /\ \E entity \in MentionSeqs, rawtype \in RawTypes, idx \in NextOffsets :
        LET ent == Entity(entity, rawtype, idx)
            coords == sequence_in(ent.entity, tokens, ent.ent_idx)
        IN  /\ ~coords.found
            /\ cur' = ent
    /\ target' = tokens
    /\ pc' = "crashed"
    /\ UNCHANGED <<cfg, nfiles, ifile, out, iob_tokens, doc, tokens, ents,
                   ret, ntok>>

\* lines 221-227 and 289: the remaining tokens are tagged, the list is
\* returned and appended to the lines of the file
ReturnEntities ==
    /\ pc = "entities"
    /\ ret' = TagOutside(tokens, doc, cfg.sep, cfg.segment)
    /\ tokens' = ret'
    /\ iob_tokens' = iob_tokens \o ret'
    /\ pc' = "file"
    /\ UNCHANGED <<cfg, nfiles, ifile, out, doc, ents, target, cur, ntok>>

\* lines 287-291 and 298-300: a segment is tagged by the model
SpanToIob ==
    /\ pc = "file"
    /\ cfg.source = "spacy"
    /\ \E n \in 1..(MaxTokens - ntok) : \E d \in Docs(n, AutoTokens) :
        /\ doc' = d
        /\ ret' = span_to_iob(d, cfg.sep, cfg.mapping, cfg.segment)
        /\ ntok' = ntok + n
    /\ iob_tokens' = iob_tokens \o ret'
    /\ UNCHANGED <<cfg, nfiles, ifile, pc, out, tokens, ents, target, cur>>

\* lines 343-344 and the next iteration of line 326
WriteFile ==
    /\ pc = "file"
    /\ out' = [out EXCEPT ![ifile].data = Printed(iob_tokens)]
    /\ ifile' = ifile + 1
    /\ pc' = IF ifile = nfiles THEN "done" ELSE "loop"
    /\ iob_tokens' = <<>>
    /\ doc' = <<>>
    /\ tokens' = <<>>
    /\ ents' = <<>>
    /\ target' = <<>>
    /\ cur' = NoEnt
    /\ ret' = <<>>
    /\ UNCHANGED <<cfg, nfiles, ntok>>

Next ==
    \/ OpenOutput
    \/ OpenFails
    \/ ReadTurn
    \/ LocateEntity
    \/ AlignmentError
    \/ ReturnEntities
    \/ SpanToIob
    \/ WriteFile

Spec == Init /\ [][Next]_vars

\* ------------------------------------------------------------- claims
\* a list has been returned for the current segment
Returned == pc = "file" /\ doc # <<>>
Golden == cfg.source = "golden"
Auto == cfg.source = "spacy"

\* a line without the line-break marker at its end
LineBody(line) ==
    IF EndsWith(line, <<NL>>) THEN SubSeq(line, 1, Len(line) - 1) ELSE line

\* the mention located on token t (0-based), if any
Covering(t) == {j \in 1..Len(ents) : ents[j].start <= t /\ t < ents[j].end}

\* C1: every returned list has one line per token of the segment, in the
\* order of the tokens, each starting with its token's text, in golden and
\* in automatic mode.
C1_Coverage ==
    Returned =>
        /\ Len(ret) = Len(doc)
        /\ \A k \in 1..Len(doc) : StartsWith(ret[k], doc[k].text)

C1_Witness ==
    /\ Returned
    /\ Golden
    /\ Len(doc) = 3
    /\ Len(ents) = 2
    /\ Len(ret) = 3

\* C2: in golden mode the line of token t is text + separator + tag, with
\* tag B-label at the start of a located span, I-label inside one and O
\* outside all spans, for every separator.
ExpectedTag(t) ==
    IF Covering(t) = {} THEN <<"O">>
    ELSE LET e == ents[CHOOSE j \in Covering(t) : TRUE]
         IN  <<IF t = e.start THEN "B" ELSE "I", "-">> \o e.enttype

C2_TaggingRule ==
    (Returned /\ Golden) =>
        \A k \in 1..Len(doc) :
            LineBody(ret[k]) = doc[k].text \o cfg.sep \o ExpectedTag(k - 1)

\* C3: located spans never share a token; every token of a span carries
\* exactly the tag its own mention wrote (B- on the first, I- on the
\* others, with the mention's label), so no tag is overwritten; mentions
\* with the same text resolve to distinct occurrences.
C3_Disjoint ==
    (Golden /\ pc \in {"entities", "file", "crashed"}) =>
        /\ \A i, j \in 1..Len(ents) :
              i # j => (ents[i].end <= ents[j].start
                            \/ ents[j].end <= ents[i].start)
        /\ \A j \in 1..Len(ents) : \A t \in ents[j].start..(ents[j].end - 1) :
              LineBody(tokens[t + 1]) =
                  doc[t + 1].text \o cfg.sep
                      \o <<IF t = ents[j].start THEN "B" ELSE "I", "-">>
                      \o ents[j].enttype

\* tokens [a, b, a] with two mentions "a": spans [0,1) and [2,3)
C3_Witness ==
    /\ Returned
    /\ Golden
    /\ Texts(doc) = <<(<<"a">>), (<<"b">>), (<<"a">>)>>
    /\ Len(ents) = 2
    /\ ents[1].entity = <<(<<"a">>)>>
    /\ ents[2].entity = <<(<<"a">>)>>
    /\ ents[1].ent_idx = 0
    /\ ents[2].ent_idx = 1
    /\ <<ents[1].start, ents[1].end>> = <<0, 1>>
    /\ <<ents[2].start, ents[2].end>> = <<2, 3>>

\* C4 as stated: a later located mention starts at or after the end of
\* the mention before it.
C4_Monotonic ==
    \A j \in 1..(Len(ents) - 1) : ents[j + 1].start >= ents[j].end

\* C4 as amended: a located mention starts at or after its own offset
\* ent_idx, the one the caller supplies with it; it starts at or after the
\* end of the mention before it whenever that offset does.
C4_FromOwnOffset ==
    /\ \A j \in 1..Len(ents) : ents[j].start >= ents[j].ent_idx
    /\ \A j \in 1..(Len(ents) - 1) :
          ents[j + 1].ent_idx >= ents[j].end
              => ents[j + 1].start >= ents[j].end

C4_Witness ==
    /\ Len(ents) = 2
    /\ ents[2].ent_idx >= ents[1].end
    /\ ents[2].start > ents[2].ent_idx

\* seq is the window of h that starts at i (0-based)
WindowAt(h, seq, i) ==
    /\ i + Len(seq) <= Len(h)
    /\ \A k \in 1..Len(seq) : h[i + k] = seq[k]

\* (start, end) is the first window of h at or after s that equals m
FirstWindow(h, m, s, start, end) ==
    /\ s <= start
    /\ start < end
    /\ end <= Len(h)
    /\ end = start + Len(m)
    /\ WindowAt(h, m, start)
    /\ \A i \in s..(start - 1) : ~WindowAt(h, m, i)

\* C5 as stated: every located span is the first window, at or after the
\* mention's offset, of the segment's tokens that equals the mention's
\* tokens.
C5_FirstMatch ==
    \A j \in 1..Len(ents) :
        FirstWindow(Texts(doc), ents[j].entity, ents[j].ent_idx,
                    ents[j].start, ents[j].end)

\* C5 as amended: the span is the first window of the working list handed
\* to sequence_in, in which the tokens of the mentions located before are
\* already replaced by their tagged lines.
C5_FirstMatchWorking ==
    (pc # "crashed" /\ ents # <<>>) =>
        LET e == ents[Len(ents)]
        IN  /\ e.entity = cur.entity
            /\ e.ent_idx = cur.ent_idx
            /\ Len(target) = Len(doc)
            /\ FirstWindow(target, e.entity, e.ent_idx, e.start, e.end)

\* the second mention is located after a token tagged by the first one
C5_Witness ==
    /\ Len(ents) = 2
    /\ pc = "entities"
    /\ WindowAt(Texts(doc), ents[2].entity, ents[2].ent_idx)
    /\ ents[2].start > ents[2].ent_idx

\* C6: a mention with no window at or after its offset ends find_entities
\* with the error: nothing is returned, no token of the segment gets a
\* default tag, and nothing of the file is written; a mention with such a
\* window never fails.
C6_AlignmentFailure ==
    /\ cur # NoEnt =>
          (pc = "crashed" <=>
              \A i \in cur.ent_idx..Len(target) :
                  ~WindowAt(target, cur.entity, i))
    /\ pc = "crashed" =>
          /\ ret = <<>>
          /\ \A k \in 1..Len(tokens) :
                ~EndsWith(tokens[k], cfg.sep \o <<"O">>)
          /\ out[ifile] = [exists |-> TRUE, data |-> <<>>]
          /\ \A f \in (ifile + 1)..MaxFiles : ~out[f].exists

\* the mention fails in the second segment of a file, after lines of the
\* first one were collected
C6_Witness ==
    /\ pc = "crashed"
    /\ iob_tokens # <<>>
    /\ \A i \in 0..Len(doc) : ~WindowAt(Texts(doc), cur.entity, i)

\* C7: in automatic mode a token's line is text + separator + "O" when the
\* tagger's prefix is O, and text + separator + prefix + "-" + mapped type
\* otherwise; no mention is searched.
RelabelledTag(token) ==
    IF token.ent_iob_ = "O" THEN <<"O">>
    ELSE <<token.ent_iob_, "-">>
             \o (IF token.ent_type_ \in DOMAIN cfg.mapping
                 THEN cfg.mapping[token.ent_type_] ELSE token.ent_type_)

C7_Relabel ==
    Auto =>
        /\ ents = <<>> /\ cur = NoEnt /\ target = <<>> /\ pc # "crashed"
        /\ Returned =>
              \A k \in 1..Len(doc) :
                  /\ k <= Len(ret)
                  /\ LineBody(ret[k]) =
                         doc[k].text \o cfg.sep \o RelabelledTag(doc[k])
                  /\ \/ RelabelledTag(doc[k]) = <<"O">>
                     \/ RelabelledTag(doc[k])[1] \in {"B", "I"}

C7_Witness ==
    /\ Auto
    /\ Returned
    /\ \E k \in 1..Len(doc) :
          doc[k].ent_iob_ = "I" /\ doc[k].ent_type_ \in DOMAIN cfg.mapping
    /\ \E k \in 1..Len(doc) : doc[k].ent_iob_ = "O"

\* C8: the label written for raw type x is table[x] when x is a key of the
\* table and x otherwise, never table[table[x]], in both modes.
\* the label of a tagged line: what follows text, separator, prefix and "-"
LabelOf(line, text, sep) ==
    LET body == LineBody(line)
    IN  SubSeq(body, Len(text) + Len(sep) + 3, Len(body))

MappedOnce(x) == IF x \in DOMAIN cfg.mapping THEN cfg.mapping[x] ELSE x

C8_MappedOnce ==
    /\ (Golden /\ pc \in {"entities", "file", "crashed"}) =>
          \A j \in 1..Len(ents) : \A t \in ents[j].start..(ents[j].end - 1) :
              LabelOf(tokens[t + 1], doc[t + 1].text, cfg.sep)
                  = MappedOnce(ents[j].rawtype)
    /\ (Auto /\ Returned) =>
          \A k \in 1..Len(doc) :
              doc[k].ent_iob_ # "O" =>
                  LabelOf(ret[k], doc[k].text, cfg.sep)
                      = MappedOnce(doc[k].ent_type_)

\* a raw type whose mapped value is itself a key, and a raw type the table
\* does not hold
C8_Witness ==
    /\ Golden
    /\ Returned
    /\ Len(ents) = 2
    /\ ents[1].rawtype \in DOMAIN cfg.mapping
    /\ cfg.mapping[ents[1].rawtype] \in DOMAIN cfg.mapping
    /\ cfg.mapping[cfg.mapping[ents[1].rawtype]] # cfg.mapping[ents[1].rawtype]

\* C9: with split_sentences a returned line ends with the line break
\* exactly when its token is the last of a sentence, and the line break is
\* the last character of the line; without split_sentences no line holds a
\* line break.
RECURSIVE SentenceEnds(_, _)
SentenceEnds(sents, before) ==
    IF sents = <<>> THEN {}
    ELSE {before + Len(Head(sents))}
             \cup SentenceEnds(Tail(sents), before + Len(Head(sents)))

C9_Marker ==
    Returned =>
        \A k \in 1..Len(doc) :
            /\ k <= Len(ret)
            /\ EndsWith(ret[k], <<NL>>)
                   <=> (cfg.segment /\ k \in SentenceEnds(Sents(doc), 0))
            /\ \A c \in 1..Len(LineBody(ret[k])) : LineBody(ret[k])[c] # NL

\* two sentences of one token each, both lines carry the marker
C9_Witness ==
    /\ Returned
    /\ Auto
    /\ cfg.segment
    /\ Len(doc) = 2
    /\ doc[1].is_sent_end
    /\ Len(ret) = 2
    /\ EndsWith(ret[1], <<NL>>)
    /\ EndsWith(ret[2], <<NL>>)

\* C10 as stated: when the output of a file cannot be opened, every later
\* file of the batch is still attempted.
C10_Isolation ==
    pc = "exit1" => \A f \in (ifile + 1)..nfiles : out[f].exists

\* C10 as amended: the failure ends the whole run; the file and every
\* later file are not attempted, the files before it are written; no output
\* is ever opened after the output of an earlier file failed to open.
C10_ExitOnOpenFailure ==
    /\ pc = "exit1" =>
          /\ \A f \in ifile..nfiles : ~out[f].exists
          /\ \A f \in 1..(ifile - 1) :
                out[f].exists /\ EndsWith(out[f].data, <<NL>>)
    /\ \A f \in 1..MaxFiles : out[f].exists =>
          \A g \in 1..(f - 1) : out[g].exists

C10_Witness ==
    /\ pc = "exit1"
    /\ nfiles = 2
    /\ ifile = 1

====
